---- MODULE Spec2Model ----
(***************************************************************************)
(* iceberg-twist/main.py: acquisition of a raw byte stream from an IMU     *)
(* over a serial link, splitting on the delimiter byte 0x3A, and decoding  *)
(* of a timestamp (offset 6, int32) and of 16-bit samples (offset 10..24). *)
(*                                                                         *)
(* Python values are modelled as follows: a bytes object is a sequence of  *)
(* integers 0..255; a value that may be unassigned (None) is a sequence of *)
(* length 0 or 1; the outcome of a call that may raise is a record         *)
(* [exc |-> name of the exception or "none", val |-> returned value].      *)
(***************************************************************************)
EXTENDS Integers, Sequences, FiniteSets, TLC

VARIABLES
    pc,          \* position of the running script / call
    byteorder,   \* sys.byteorder of the host: struct's native byte order
    bytes,       \* main: bytes (the acquired buffer), None before acquisition
    parts,       \* main: value of bytes.split(b'\x3a'), None before the split
    delims,      \* main line 86: [byte for byte in bytes if byte == 58]
    byte,        \* main: byte / the byte_array argument of the decoders
    timestamp,   \* outcome of get_timestamp(byte)
    ts_byte,     \* value of get_timestamp_byte(byte)
    data_array,  \* value of get_data_array(byte)
    data,        \* outcome of get_data(data_array)
    outcomes,    \* outcomes of the decode calls the script has made, in order
    exc,         \* exception that ended the script / the call, "none" otherwise
    test,        \* main: test
    port,        \* serial port: "closed" or "open"
    rx,          \* bytes waiting in the port's receive buffer
    remaining,   \* seconds of sleep(n) still to elapse
    result,      \* value returned by get_bytes / get_bytes_from_file
    fs,          \* file system: path -> None (no file) or Some(content)
    bytes_waiting, \* get_bytes: bytes_waiting, None before sensor.in_waiting
    calls        \* the last two file calls made: [op, path, data]

vars == <<pc, byteorder, bytes, parts, delims, byte, timestamp, ts_byte,
          data_array, data, outcomes, exc, test, port, rx, remaining, result,
          fs, bytes_waiting, calls>>

scanVars == <<bytes, parts, delims>>
decodeVars == <<byte, timestamp, ts_byte, data_array, data>>
portVars == <<port, rx, remaining, bytes_waiting>>
fileVars == <<fs, calls>>

-----------------------------------------------------------------------------
(* Python values *)

None == <<>>
Some(x) == <<x>>
Val(o) == o[1]

Ok(v) == [exc |-> "none", val |-> v]
Raise(e, v) == [exc |-> e, val |-> v]

BoundedSeq(S, n) == UNION {[1..k -> S] : k \in 0..n}

\* b[lo:hi] of Python for 0 <= lo, 0 <= hi: clamped to the length of b
Slice(b, lo, hi) ==
    LET h == IF hi < Len(b) THEN hi ELSE Len(b)
    IN  IF lo >= h THEN <<>> ELSE SubSeq(b, lo + 1, h)

-----------------------------------------------------------------------------
(* bytes.split(sep) with a one-byte separator, main lines 87, 92, 101 *)

SEP == 58

\* index (1-based) of the first occurrence of sep in b at or after i, 0 if none
RECURSIVE find(_, _, _)
find(b, sep, i) ==
    IF i > Len(b) THEN 0
    ELSE IF b[i] = sep THEN i
    ELSE find(b, sep, i + 1)

\* str.split() without a separator: runs of separators collapse, no empty parts
RECURSIVE splitDropEmpty(_, _)
splitDropEmpty(b, sep) ==
    LET i == find(b, sep, 1) IN
    IF i = 0 THEN (IF b = <<>> THEN <<>> ELSE <<b>>)
    ELSE (IF i = 1 THEN <<>> ELSE <<SubSeq(b, 1, i - 1)>>)
         \o splitDropEmpty(SubSeq(b, i + 1, Len(b)), sep)

\* a split that returns no part for the empty buffer
RECURSIVE splitEmptyNone(_, _)
splitEmptyNone(b, sep) ==
    LET i == find(b, sep, 1) IN
    IF b = <<>> THEN <<>>
    ELSE IF i = 0 THEN <<b>>
    ELSE <<SubSeq(b, 1, i - 1)>>
         \o (IF i = Len(b) THEN << <<>> >>
             ELSE splitEmptyNone(SubSeq(b, i + 1, Len(b)), sep))

\* bytes.split(sep, 1): the buffer is cut at the first separator only
splitOnce(b, sep) ==
    LET i == find(b, sep, 1) IN
    IF i = 0 THEN <<b>>
    ELSE <<SubSeq(b, 1, i - 1), SubSeq(b, i + 1, Len(b))>>

RECURSIVE split(_, _)
split(b, sep) ==
    LET i == find(b, sep, 1) IN
    IF i = 0 THEN <<b>>
    ELSE <<SubSeq(b, 1, i - 1)>> \o split(SubSeq(b, i + 1, Len(b)), sep)

\* [byte for byte in bytes if byte == 58]
delimiters(b) == SelectSeq(b, LAMBDA x : x = SEP)

-----------------------------------------------------------------------------
(* struct: fixed-width integers in the host's native byte order *)

Reverse(s) == [i \in 1..Len(s) |-> s[Len(s) + 1 - i]]

\* value of the little-endian unsigned integer held by the bytes le
RECURSIVE unsigned(_)
unsigned(le) ==
    IF le = <<>> THEN 0 ELSE le[1] + 256 * unsigned(Tail(le))

\* two's complement value of the bytes bs stored in byte order order
from_bytes(bs, order) ==
    LET le == IF order = "little" THEN bs ELSE Reverse(bs)
        n == Len(le)
        top == IF le[n] >= 128 THEN le[n] - 256 ELSE le[n]
    IN  top * (256 ^ (n - 1)) + unsigned(SubSeq(le, 1, n - 1))

\* value of the bytes bs read as an unsigned integer (format 'H')
from_bytes_unsigned(bs, order) ==
    unsigned(IF order = "little" THEN bs ELSE Reverse(bs))

\* struct.unpack_from(fmt, buffer, offset) for a one-field format of size
\* bytes: struct.error when fewer than size bytes follow offset. read is the
\* set of offsets of buffer the call reads.
unpack_from(size, buffer, offset, order) ==
    IF Len(buffer) - offset < size
    THEN [exc |-> "struct.error", val |-> 0, read |-> {}]
    ELSE [exc |-> "none",
          val |-> from_bytes(SubSeq(buffer, offset + 1, offset + size), order),
          read |-> offset..(offset + size - 1)]

\* list(struct.iter_unpack(fmt, buffer)) for a one-field format of size bytes:
\* struct.error unless len(buffer) is a multiple of size
iter_unpack(size, buffer, order) ==
    IF Len(buffer) % size # 0
    THEN Raise("struct.error", <<>>)
    ELSE Ok([k \in 1..(Len(buffer) \div size) |->
               from_bytes(SubSeq(buffer, size * (k - 1) + 1, size * k), order)])

-----------------------------------------------------------------------------
(* the decoders, main lines 60-81 *)

TS_OFFSET == 6
TS_SIZE == 4
DATA_START == 10
DATA_END == 24
SAMPLE_SIZE == 2

\* a timestamp read one byte early
get_timestamp_early(byte_array, order) ==
    unpack_from(TS_SIZE, byte_array, TS_OFFSET - 1, order)

get_timestamp(byte_array, order) ==
    unpack_from(TS_SIZE, byte_array, TS_OFFSET, order)

get_timestamp_byte(byte_array) == Slice(byte_array, TS_OFFSET, TS_OFFSET + 1)

\* byte_array[10:]: the payload without its upper limit
get_data_array_uncapped(byte_array) ==
    Slice(byte_array, DATA_START, Len(byte_array))

get_data_array(byte_array) == Slice(byte_array, DATA_START, DATA_END)

\* samples decoded with format 'H' instead of 'h'
get_data_unsigned(byte_array, order) ==
    IF Len(byte_array) % SAMPLE_SIZE # 0
    THEN Raise("struct.error", <<>>)
    ELSE Ok([k \in 1..(Len(byte_array) \div SAMPLE_SIZE) |->
               from_bytes_unsigned(SubSeq(byte_array, SAMPLE_SIZE * (k - 1) + 1,
                                          SAMPLE_SIZE * k), order)])

get_data(byte_array, order) == iter_unpack(SAMPLE_SIZE, byte_array, order)

-----------------------------------------------------------------------------
(* bounds and input sets *)

MaxBufLen == 5
MaxFrameLen == 26

Orders == {"little", "big"}

\* bytes of the buffers given to the scanner: the delimiter and "abc"
ScanBytes == {SEP, 97, 98, 99}
Buffers == BoundedSeq(ScanBytes, MaxBufLen)

\* frames given to the decoders: every prefix of a frame made of a header
\* fill h, four timestamp bytes t and a payload running from a in steps of b
HeaderFill == {0, 7}
TsBytes == {0, 128, 255}
PayloadStart == {0, 255}
PayloadStep == {1, 127}

FullFrame(h, t, a, b) ==
    [i \in 1..MaxFrameLen |->
        IF i <= TS_OFFSET THEN h
        ELSE IF i <= TS_OFFSET + TS_SIZE THEN t[i - TS_OFFSET]
        ELSE (a + (i - 1 - DATA_START) * b) % 256]

Frames ==
    {SubSeq(FullFrame(h, t, a, b), 1, n) :
        n \in 0..MaxFrameLen, h \in HeaderFill, t \in [1..TS_SIZE -> TsBytes],
        a \in PayloadStart, b \in PayloadStep}

\* struct.pack of the integer v in size bytes (two's complement)
pack(v, size, order) ==
    LET le == [k \in 1..size |-> (v \div (256 ^ (k - 1))) % 256]
    IN  IF order = "little" THEN le ELSE Reverse(le)

\* b"\x00"*6 + pack('i', 1234) + b"\x00"*4 + pack('hhh', 1, -1, 7)
ScenarioFrame(order) ==
    [i \in 1..6 |-> 0] \o pack(1234, 4, order) \o [i \in 1..4 |-> 0]
    \o pack(1, 2, order) \o pack(-1, 2, order) \o pack(7, 2, order)

-----------------------------------------------------------------------------
(* initial values of the parts of the state a specification does not use *)

ScanIdle == bytes = None /\ parts = None /\ delims = None
DecodeIdle ==
    /\ byte = None /\ timestamp = None /\ ts_byte = None
    /\ data_array = None /\ data = None
MainIdle == outcomes = <<>> /\ exc = "none" /\ test = None
PortIdle ==
    /\ port = "closed" /\ rx = <<>> /\ remaining = 0
    /\ bytes_waiting = None /\ result = None
FileIdle == fs = <<>> /\ calls = <<>>

-----------------------------------------------------------------------------
(* SpecSplit: the scanner applied to every buffer of Buffers *)

InitSplit ==
    /\ pc = "scan"
    /\ byteorder = "little"
    /\ bytes \in {Some(b) : b \in Buffers}
    /\ parts = None /\ delims = None
    /\ DecodeIdle /\ MainIdle /\ PortIdle /\ FileIdle

\* main lines 86, 95, 100
Delimiters ==
    /\ pc = "scan" /\ delims = None
    /\ delims' = Some(delimiters(Val(bytes)))
    /\ UNCHANGED <<pc, byteorder, bytes, parts, decodeVars, outcomes, exc,
                   test, portVars, result, fileVars>>

\* main lines 87, 92, 101
Split ==
    /\ pc = "scan" /\ parts = None
    /\ parts' = Some(split(Val(bytes), SEP))
    /\ UNCHANGED <<pc, byteorder, bytes, delims, decodeVars, outcomes, exc,
                   test, portVars, result, fileVars>>

NextSplit == Delimiters \/ Split

SpecSplit == InitSplit /\ [][NextSplit]_vars

-----------------------------------------------------------------------------
(* SpecDecode: the decoders applied to every frame of Frames *)

InitDecode ==
    /\ pc = "decode"
    /\ byteorder \in Orders
    /\ byte \in {Some(f) : f \in Frames \cup {ScenarioFrame(byteorder)}}
    /\ timestamp = None /\ ts_byte = None /\ data_array = None /\ data = None
    /\ ScanIdle /\ MainIdle /\ PortIdle /\ FileIdle

GetTimestamp ==
    /\ pc = "decode" /\ timestamp = None
    /\ timestamp' = Some(get_timestamp(Val(byte), byteorder))
    /\ UNCHANGED <<pc, byteorder, scanVars, byte, ts_byte, data_array, data,
                   outcomes, exc, test, portVars, result, fileVars>>

GetTimestampByte ==
    /\ pc = "decode" /\ ts_byte = None
    /\ ts_byte' = Some(get_timestamp_byte(Val(byte)))
    /\ UNCHANGED <<pc, byteorder, scanVars, byte, timestamp, data_array, data,
                   outcomes, exc, test, portVars, result, fileVars>>

GetDataArray ==
    /\ pc = "decode" /\ data_array = None
    /\ data_array' = Some(get_data_array(Val(byte)))
    /\ UNCHANGED <<pc, byteorder, scanVars, byte, timestamp, ts_byte, data,
                   outcomes, exc, test, portVars, result, fileVars>>

\* get_data applied to the payload get_data_array returned
GetData ==
    /\ pc = "decode" /\ data_array # None /\ data = None
    /\ data' = Some(get_data(Val(data_array), byteorder))
    /\ UNCHANGED <<pc, byteorder, scanVars, byte, timestamp, ts_byte,
                   data_array, outcomes, exc, test, portVars, result, fileVars>>

NextDecode == GetTimestamp \/ GetTimestampByte \/ GetDataArray \/ GetData

SpecDecode == InitDecode /\ [][NextDecode]_vars

-----------------------------------------------------------------------------
(* properties of the scanner, under SpecSplit *)

\* b":".join(ps)
RECURSIVE join(_, _)
join(ps, sep) ==
    IF ps = <<>> THEN <<>>
    ELSE IF Len(ps) = 1 THEN ps[1]
    ELSE ps[1] \o <<sep>> \o join(Tail(ps), sep)

RECURSIVE concat(_)
concat(ps) == IF ps = <<>> THEN <<>> ELSE ps[1] \o concat(Tail(ps))

count(b, x) == Cardinality({i \in DOMAIN b : b[i] = x})

\* C1: joining the candidates of split(b, 0x3A) with one 0x3A between each
\* pair of consecutive candidates gives back b, for every buffer b.
C1_SplitRoundTrip ==
    parts # None => join(Val(parts), SEP) = Val(bytes)

\* a buffer with a leading and a doubled delimiter has been split
C1_Witness ==
    /\ bytes = Some(<<58, 97, 58, 58, 98>>)
    /\ parts = Some(<< <<>>, <<97>>, <<>>, <<98>> >>)

\* C3: a non-empty buffer with k delimiter bytes splits into exactly k+1
\* candidates, in stream order, none containing the delimiter; zero-length
\* candidates are kept (b":abc" gives ["", "abc"]) and a buffer without a
\* delimiter gives the single candidate equal to the buffer.
C3_SplitCount ==
    (parts # None /\ Val(bytes) # <<>>) =>
        LET b == Val(bytes)
            ps == Val(parts)
            k == count(b, SEP)
        IN  /\ Len(ps) = k + 1
            /\ \A i \in DOMAIN ps : count(ps[i], SEP) = 0
            /\ concat(ps) = SelectSeq(b, LAMBDA x : x # SEP)
            /\ (k = 0 => ps = <<b>>)
            /\ (b = <<58, 97, 98, 99>> => ps = << <<>>, <<97, 98, 99>> >>)
            /\ (delims # None => Len(ps) = Len(Val(delims)) + 1)

\* b":abc" has been split, and its delimiters counted
C3_Witness ==
    /\ bytes = Some(<<58, 97, 98, 99>>)
    /\ parts = Some(<< <<>>, <<97, 98, 99>> >>)
    /\ delims = Some(<<58>>)

-----------------------------------------------------------------------------
(* properties of the decoders, under SpecDecode *)

\* C4: get_timestamp fails with struct.error exactly when the candidate is
\* shorter than 10 bytes, reading no byte then and never a byte outside the
\* candidate; on 10 bytes or more it returns the signed 32-bit value held by
\* bytes 6..9 in the host's byte order.
C4_TimestampTooShort ==
    timestamp # None =>
        LET r == Val(timestamp)
            f == Val(byte)
        IN  /\ r.exc \in {"none", "struct.error"}
            /\ r.exc = "struct.error" <=> Len(f) < 10
            /\ r.exc = "struct.error" => r.read = {}
            /\ r.read \subseteq 0..(Len(f) - 1)
            /\ Len(f) >= 10 =>
                 /\ r.exc = "none"
                 /\ r.read = 6..9
                 /\ pack(r.val, 4, byteorder) = SubSeq(f, 7, 10)

\* a 9-byte candidate has been refused
C4_Witness ==
    /\ timestamp # None /\ byte # None
    /\ Len(Val(byte)) = 9
    /\ Val(timestamp).exc = "struct.error"

\* C5, as claimed: get_data succeeds on a payload of any length L and returns
\* L // 2 samples, an odd trailing byte being dropped without an error.
C5_OddTailDropped ==
    data # None =>
        /\ Val(data).exc = "none"
        /\ Len(Val(data).val) = Len(Val(data_array)) \div 2

\* C6, as claimed: the payload of a candidate of n >= 10 bytes is all of
\* frame[10:n], and (n - 10) // 2 samples are decoded from it.
C6_PayloadToEnd ==
    (data_array # None /\ Len(Val(byte)) >= 10) =>
        /\ Val(data_array) = SubSeq(Val(byte), 11, Len(Val(byte)))
        /\ (data # None /\ Val(data).exc = "none") =>
              Len(Val(data).val) = (Len(Val(byte)) - 10) \div 2

\* C6, amended: the payload of a candidate of n bytes is frame[10:min(n, 24)],
\* at most 14 bytes; get_data on it returns half as many samples, at most 7,
\* when its length is even and raises struct.error when it is odd.
C6_PayloadCapped ==
    data_array # None =>
        LET f == Val(byte)
            da == Val(data_array)
            m == IF Len(f) < 24 THEN Len(f) ELSE 24
        IN  /\ Len(da) = (IF m > 10 THEN m - 10 ELSE 0)
            /\ Len(da) <= 14
            /\ \A k \in DOMAIN da : da[k] = f[10 + k]
            /\ data # None =>
                 /\ Val(data).exc = "none" <=> Len(da) % 2 = 0
                 /\ Val(data).exc # "none" => Val(data).exc = "struct.error"
                 /\ Val(data).exc = "none" =>
                       /\ Len(Val(data).val) = Len(da) \div 2
                       /\ Len(Val(data).val) <= 7

\* a 26-byte candidate has been decoded into 7 samples
C6_Witness ==
    /\ byte # None /\ data_array # None /\ data # None
    /\ Len(Val(byte)) = 26
    /\ Len(Val(data_array)) = 14
    /\ Val(data).exc = "none" /\ Len(Val(data).val) = 7

\* C7, as claimed: the 20-byte scenario frame decodes to timestamp 1234 and
\* to the 3 samples [1, -1, 7].
C7_ScenarioThreeSamples ==
    (byte = Some(ScenarioFrame(byteorder)) /\ timestamp # None /\ data # None) =>
        /\ Val(timestamp).exc = "none" /\ Val(timestamp).val = 1234
        /\ Val(data) = Ok(<<1, -1, 7>>)

\* C7, amended: the 20-byte scenario frame decodes to timestamp 1234 and to
\* the 5 samples [0, 0, 1, -1, 7]: the 4 zero bytes after the timestamp are
\* at offsets 10..13 and belong to the payload.
C7_ScenarioFiveSamples ==
    (byte = Some(ScenarioFrame(byteorder)) /\ timestamp # None /\ data # None) =>
        /\ Len(Val(byte)) = 20
        /\ Val(timestamp).exc = "none" /\ Val(timestamp).val = 1234
        /\ Len(Val(data_array)) = 10
        /\ Val(data) = Ok(<<0, 0, 1, -1, 7>>)

\* the scenario frame has been decoded
C7_Witness ==
    /\ byte = Some(ScenarioFrame(byteorder))
    /\ timestamp # None /\ data # None
    /\ Val(data).exc = "none"

-----------------------------------------------------------------------------
(* SpecTransport: one call get_bytes(n, config), main lines 34-40, with the *)
(* sensor filling the port's receive buffer while the port is open          *)

MaxWait == 2
MaxRx == 3
RxBytes == {0, SEP}

\* leaving the with block closes the port only when no exception is pending
with_exit_unless_raised(p, e) == IF e = "none" THEN "closed" ELSE p

\* Serial.__exit__: leaving the with block closes the port, line 35
with_exit(p, e) == "closed"

InitTransport ==
    /\ pc = "call"
    /\ byteorder = "little"
    /\ remaining \in 0..MaxWait
    /\ port = "closed" /\ rx = <<>> /\ bytes_waiting = None /\ result = None
    /\ ScanIdle /\ DecodeIdle /\ MainIdle /\ FileIdle

\* the sensor transmits one byte, which the open port buffers
SensorEmit ==
    /\ port = "open" /\ Len(rx) < MaxRx
    /\ \E b \in RxBytes : rx' = Append(rx, b)
    /\ UNCHANGED <<pc, byteorder, scanVars, decodeVars, outcomes, exc, test,
                   port, remaining, bytes_waiting, result, fileVars>>

\* line 35: serial.Serial(path, baud, timeout=...) opens the port, or raises
\* before the with block is entered
Open ==
    /\ pc = "call"
    /\ \/ port' = "open" /\ pc' = "sleep" /\ exc' = exc
       \/ port' = port /\ pc' = "raised" /\ exc' = "SerialException"
    /\ UNCHANGED <<byteorder, scanVars, decodeVars, outcomes, test, rx,
                   remaining, bytes_waiting, result, fileVars>>

\* line 36: sleep(n), second by second; a signal may interrupt it
Sleep ==
    /\ pc = "sleep"
    /\ \/ remaining > 0 /\ remaining' = remaining - 1 /\ pc' = pc /\ exc' = exc
       \/ remaining = 0 /\ remaining' = remaining /\ pc' = "in_waiting"
          /\ exc' = exc
       \/ remaining' = remaining /\ pc' = "exit" /\ exc' = "KeyboardInterrupt"
    /\ UNCHANGED <<byteorder, scanVars, decodeVars, outcomes, test, port, rx,
                   bytes_waiting, result, fileVars>>

\* line 37: bytes_waiting = sensor.in_waiting
InWaiting ==
    /\ pc = "in_waiting"
    /\ \/ bytes_waiting' = Some(Len(rx)) /\ pc' = "read" /\ exc' = exc
       \/ bytes_waiting' = bytes_waiting /\ pc' = "exit"
          /\ exc' = "SerialException"
    /\ UNCHANGED <<byteorder, scanVars, decodeVars, outcomes, test, port, rx,
                   remaining, result, fileVars>>

\* line 38: bytes = sensor.read(bytes_waiting)
Read ==
    /\ pc = "read"
    /\ \/ /\ bytes' = Some(SubSeq(rx, 1, Val(bytes_waiting)))
          /\ rx' = SubSeq(rx, Val(bytes_waiting) + 1, Len(rx))
          /\ pc' = "exit" /\ exc' = exc
       \/ /\ bytes' = bytes /\ rx' = rx
          /\ pc' = "exit" /\ exc' = "SerialException"
    /\ UNCHANGED <<byteorder, parts, delims, decodeVars, outcomes, test, port,
                   remaining, bytes_waiting, result, fileVars>>

\* the end of the with block, reached normally or by an exception, and
\* line 40: return bytes
Exit ==
    /\ pc = "exit"
    /\ port' = with_exit(port, exc)
    /\ \/ exc = "none" /\ pc' = "returned" /\ result' = bytes
       \/ exc # "none" /\ pc' = "raised" /\ result' = result
    /\ UNCHANGED <<byteorder, scanVars, decodeVars, outcomes, exc, test, rx,
                   remaining, bytes_waiting, fileVars>>

NextTransport == SensorEmit \/ Open \/ Sleep \/ InWaiting \/ Read \/ Exit

SpecTransport == InitTransport /\ [][NextTransport]_vars

\* C9: whenever get_bytes has returned or propagated an error, the port is
\* closed, whether the error came from the wait, from in_waiting or from the
\* read; a port that was opened is never left open.
C9_PortReleased ==
    pc \in {"returned", "raised"} => port = "closed"

\* the read failed on an open port, and the error has propagated
C9_Witness ==
    /\ pc = "raised" /\ exc = "SerialException"
    /\ bytes_waiting # None /\ bytes = None
    /\ port = "closed"

-----------------------------------------------------------------------------
(* the file collaborators, main lines 43-57 *)

PATH == "data/cJun27_bin16DYN.txt"
OUT_PATH == "data/imu_bytes.txt"
Paths == {PATH, OUT_PATH}

\* contents of the files and of the buffers saved
FileData == {<<>>, <<SEP>>, <<0, SEP>>}
FileSystems == [Paths -> {None} \cup {Some(d) : d \in FileData}]

\* os.remove(path) when it succeeds
remove(files, path) == [files EXCEPT ![path] = None]

\* open(path, 'ab'): an existing file keeps its content
open_ab(files, path) ==
    IF files[path] = None THEN [files EXCEPT ![path] = Some(<<>>)] ELSE files

\* open(path, 'wb'): the file is created, or truncated if it exists
open_wb(files, path) == [files EXCEPT ![path] = Some(<<>>)]

\* sink.write(byte_array), and the close that ends the with block
write(files, path, byte_array) ==
    [files EXCEPT ![path] = Some(Val(@) \o byte_array)]

\* lines 51-54: remove(path) with every exception swallowed: the file is
\* gone, or it is still there (it was missing, or could not be removed)
after_remove(files, path) == {remove(files, path), files}

\* lines 43-47: the whole content of the file, FileNotFoundError without one
get_bytes_from_file(files, path) ==
    IF files[path] = None THEN Raise("FileNotFoundError", <<>>)
    ELSE Ok(Val(files[path]))

\* the last two entries of the record of calls
LastTwo(s) == IF Len(s) <= 2 THEN s ELSE SubSeq(s, Len(s) - 1, Len(s))

Call(op, path, d) == [op |-> op, path |-> path, data |-> d]

InitFile ==
    /\ pc = "idle"
    /\ byteorder = "little"
    /\ fs \in FileSystems
    /\ calls = <<>>
    /\ ScanIdle /\ DecodeIdle /\ MainIdle /\ PortIdle

\* lines 50-57: bytes_to_file(path, byte_array)
BytesToFile ==
    /\ pc \in {"idle", "saved", "loaded", "failed"}
    /\ \E path \in Paths, byte_array \in FileData :
       \E removed \in after_remove(fs, path) :
          \/ /\ fs' = write(open_wb(removed, path), path, byte_array)
             /\ pc' = "saved"
             /\ exc' = "none"
             /\ calls' = LastTwo(Append(calls, Call("save", path, byte_array)))
          \/ /\ fs' = removed
             /\ pc' = "failed"
             /\ exc' = "PermissionError"
             /\ calls' = LastTwo(Append(calls, Call("fail", path, <<>>)))
    /\ UNCHANGED <<byteorder, scanVars, decodeVars, outcomes, test, portVars,
                   result>>

\* lines 43-47: result = get_bytes_from_file(path)
GetBytesFromFile ==
    /\ pc \in {"idle", "saved", "loaded", "failed"}
    /\ \E path \in Paths :
       LET r == get_bytes_from_file(fs, path) IN
          \/ /\ r.exc = "none"
             /\ result' = Some(r.val)
             /\ pc' = "loaded"
             /\ exc' = "none"
             /\ calls' = LastTwo(Append(calls, Call("load", path, r.val)))
          \/ /\ r.exc # "none"
             /\ result' = result
             /\ pc' = "failed"
             /\ exc' = r.exc
             /\ calls' = LastTwo(Append(calls, Call("fail", path, <<>>)))
    /\ UNCHANGED <<byteorder, scanVars, decodeVars, outcomes, test, portVars,
                   fs>>

NextFile == BytesToFile \/ GetBytesFromFile

SpecFile == InitFile /\ [][NextFile]_vars

\* C10: when bytes_to_file(path, data) has completed the file at path holds
\* exactly data, whether or not a file was there before, so that a following
\* get_bytes_from_file(path) returns data; of two saves in a row only the
\* second buffer is left.
C10_SaveThenLoad ==
    /\ (pc = "saved") => fs[calls[Len(calls)].path] = Some(calls[Len(calls)].data)
    /\ (Len(calls) = 2 /\ calls[1].op = "save" /\ calls[2].op = "load"
         /\ calls[1].path = calls[2].path) =>
           /\ calls[2].data = calls[1].data
           /\ result = Some(calls[1].data)
    /\ (Len(calls) = 2 /\ calls[1].op = "save" /\ calls[2].op = "save"
         /\ calls[1].path = calls[2].path) =>
           fs[calls[2].path] = Some(calls[2].data)

\* a non-empty buffer was saved to OUT_PATH and read back by the next call
C10_Witness ==
    /\ pc = "loaded" /\ Len(calls) = 2
    /\ calls[1] = Call("save", OUT_PATH, <<0, SEP>>)
    /\ calls[2] = Call("load", OUT_PATH, <<0, SEP>>)
    /\ result = Some(<<0, SEP>>)

-----------------------------------------------------------------------------
(* SpecMain: the script, main lines 84-103. A call of get_bytes is one step *)
(* that returns any buffer of MainBuffers or raises.                        *)

MaxParts == 3

\* candidates the acquired buffers are made of: empty, too short ("abc"),
\* exactly 10 bytes, and 20 bytes
MainCandidates ==
    {<<>>, <<97, 98, 99>>,
     SubSeq(FullFrame(0, <<0, 128, 255, 0>>, 0, 1), 1, 10),
     SubSeq(FullFrame(7, <<255, 255, 255, 255>>, 0, 1), 1, 20)}

RECURSIVE joinAll(_)
joinAll(ps) ==
    IF Len(ps) = 1 THEN ps[1] ELSE ps[1] \o <<SEP>> \o joinAll(Tail(ps))

MainBuffers ==
    {joinAll(ps) : ps \in UNION {[1..k -> MainCandidates] : k \in 1..MaxParts}}

InitMain ==
    /\ pc = "L85"
    /\ byteorder \in Orders
    /\ fs \in FileSystems
    /\ calls = <<>>
    /\ ScanIdle /\ DecodeIdle /\ MainIdle /\ PortIdle

\* line 85: bytes = get_bytes(1, FAST)
Line85 ==
    /\ pc = "L85"
    /\ \/ \E b \in MainBuffers : bytes' = Some(b) /\ pc' = "L86" /\ exc' = exc
       \/ bytes' = bytes /\ pc' = "raised" /\ exc' = "SerialException"
    /\ UNCHANGED <<byteorder, parts, delims, decodeVars, outcomes, test,
                   portVars, result, fileVars>>

\* line 86: [byte for byte in bytes if byte == 58]
Line86 ==
    /\ pc = "L86"
    /\ delims' = Some(delimiters(Val(bytes)))
    /\ pc' = "L87"
    /\ UNCHANGED <<byteorder, bytes, parts, decodeVars, outcomes, exc, test,
                   portVars, result, fileVars>>

\* line 87: byte = bytes.split(b'\x3a')[1]
Line87 ==
    /\ pc = "L87"
    /\ parts' = Some(split(Val(bytes), SEP))
    /\ \/ /\ Len(Val(parts')) >= 2
          /\ byte' = Some(Val(parts')[2]) /\ pc' = "L88" /\ exc' = exc
       \/ /\ Len(Val(parts')) < 2
          /\ byte' = byte /\ pc' = "raised" /\ exc' = "IndexError"
    /\ UNCHANGED <<byteorder, bytes, delims, timestamp, ts_byte, data_array,
                   data, outcomes, test, portVars, result, fileVars>>

\* line 88: struct.unpack('h', bytearray(bytes[0:0+2])), which needs 2 bytes
Line88 ==
    /\ pc = "L88"
    /\ \/ /\ Len(Slice(Val(bytes), 0, 2)) = SAMPLE_SIZE
          /\ pc' = "L90" /\ exc' = exc
       \/ /\ Len(Slice(Val(bytes), 0, 2)) # SAMPLE_SIZE
          /\ pc' = "raised" /\ exc' = "struct.error"
    /\ UNCHANGED <<byteorder, scanVars, decodeVars, outcomes, test, portVars,
                   result, fileVars>>

\* line 90: timestamp = get_timestamp(byte); struct.error is not caught
Line90 ==
    /\ pc = "L90"
    /\ LET r == get_timestamp(Val(byte), byteorder) IN
       /\ outcomes' = Append(outcomes, r)
       /\ \/ /\ r.exc = "none"
             /\ timestamp' = Some(r) /\ pc' = "L92" /\ exc' = exc
          \/ /\ r.exc # "none"
             /\ timestamp' = timestamp /\ pc' = "raised" /\ exc' = r.exc
    /\ UNCHANGED <<byteorder, scanVars, byte, ts_byte, data_array, data, test,
                   portVars, result, fileVars>>

\* lines 92-95: the lengths of the candidates (discarded), then
\* test = get_bytes(60, FAST)
Line94 ==
    /\ pc = "L92"
    /\ \/ \E b \in FileData : test' = Some(b) /\ pc' = "L99" /\ exc' = exc
       \/ test' = test /\ pc' = "raised" /\ exc' = "SerialException"
    /\ UNCHANGED <<byteorder, scanVars, decodeVars, outcomes, portVars, result,
                   fileVars>>

\* lines 97-101: test = get_bytes_from_file(PATH)
Line99 ==
    /\ pc = "L99"
    /\ LET r == get_bytes_from_file(fs, PATH) IN
       \/ r.exc = "none" /\ test' = Some(r.val) /\ pc' = "L103" /\ exc' = exc
       \/ r.exc # "none" /\ test' = test /\ pc' = "raised" /\ exc' = r.exc
    /\ UNCHANGED <<byteorder, scanVars, decodeVars, outcomes, portVars, result,
                   fileVars>>

\* line 103: bytes_to_file(OUT_PATH, bytes)
Line103 ==
    /\ pc = "L103"
    /\ \E removed \in after_remove(fs, OUT_PATH) :
          \/ /\ fs' = write(open_wb(removed, OUT_PATH), OUT_PATH, Val(bytes))
             /\ pc' = "done" /\ exc' = exc
          \/ /\ fs' = removed
             /\ pc' = "raised" /\ exc' = "PermissionError"
    /\ UNCHANGED <<byteorder, scanVars, decodeVars, outcomes, test, portVars,
                   result, calls>>

NextMain ==
    Line85 \/ Line86 \/ Line87 \/ Line88 \/ Line90 \/ Line94 \/ Line99
    \/ Line103

SpecMain == InitMain /\ [][NextMain]_vars

\* C2, as claimed: the empty buffer splits into the empty sequence of
\* candidates, and the run over it gives no frame and no decode error.
C2_EmptyBufferNoCandidate ==
    (bytes = Some(<<>>) /\ parts # None) =>
        /\ Val(parts) = <<>>
        /\ outcomes = <<>>

\* C2, amended: the empty buffer splits into exactly one candidate, of length
\* zero; the run over it still gives no frame and no decode error, because it
\* ends with IndexError before any candidate is decoded.
C2_EmptyBufferOneCandidate ==
    (bytes = Some(<<>>) /\ parts # None) =>
        /\ Val(parts) = << <<>> >>
        /\ outcomes = <<>> /\ timestamp = None
        /\ pc = "raised" /\ exc = "IndexError"

\* the empty acquisition has been split
C2_Witness ==
    /\ bytes = Some(<<>>) /\ parts = Some(<< <<>> >>)
    /\ pc = "raised"

\* C8, as claimed: when the run has ended, every candidate of the split has
\* been decoded to exactly one outcome, in order, and no candidate that
\* failed to decode has stopped the run.
C8_EveryCandidateDecoded ==
    (pc \in {"done", "raised"} /\ parts # None) =>
        /\ Len(outcomes) = Len(Val(parts))
        /\ \A i \in DOMAIN outcomes :
              outcomes[i] = get_timestamp(Val(parts)[i], byteorder)
        /\ \A i \in DOMAIN outcomes :
              outcomes[i].exc # "none" => exc # outcomes[i].exc

====
